---- MODULE Spec2Model ----
(***************************************************************************)
(* LeashYourself (src/leashYourself.tsx): the leash controller.            *)
(*                                                                         *)
(* The plugin keeps one policy record (settings.store) and reacts to three *)
(* kinds of callbacks: the user context menu entry (toggleLeash), the      *)
(* toolbar indicator (click = pull, right click = unleash) and the flux    *)
(* handler VOICE_STATE_UPDATES.  Every callback runs to completion on the  *)
(* single UI thread, so each is one action here.  The host stores          *)
(* (VoiceStateStore, SelectedChannelStore, ChannelStore, PermissionStore)  *)
(* are read-only to the plugin; ChannelActions and Toasts are fire and     *)
(* forget, so the model records the calls made instead of their effect.    *)
(***************************************************************************)
EXTENDS Integers, Sequences, FiniteSets, TLC

\* ---------------------------------------------------------------- bounds
\* longest batch of voice states delivered in one VOICE_STATE_UPDATES
MaxBatch == 2

\* ------------------------------------------------------------- the host
\* UserStore.getCurrentUser().id
Me == "me"
\* the other users the host knows
Others == {"h", "a"}
Users == {Me} \cup Others
Channels == {"c1", "c2"}
\* the userLimit values that differ for this many users (0 = unlimited; more
\* than Others can fill is never reached)
Limits == 0..Cardinality(Others)
\* null / undefined channel id
Null == "null"
\* settings.store.handlerUserId default: no handler
NoHandler == ""
\* what a host query can do when the plugin calls it
HostErrors == {"none", "getAllVoiceStates", "getVoiceStatesForChannel"}

VARIABLES
    handlerUserId,        \* settings.store.handlerUserId
    pullOnLeashSet,       \* settings.store.pullOnLeashSet
    onlyManualTrigger,    \* settings.store.onlyManualTrigger
    leashReleaseOnLeave,  \* settings.store.leashReleaseOnLeave
    autoPullBack,         \* settings.store.autoPullBack
    waitForSpace,         \* settings.store.waitForSpace
    voice,                \* VoiceStateStore: user -> channel id or Null
    userLimit,            \* ChannelStore.getChannel(c).userLimit
    channelType,          \* ChannelStore.getChannel(c).type (1 = one-to-one call)
    canConnect,           \* PermissionStore.can(CONNECT, c)
    canMove,              \* PermissionStore.can(MOVE_MEMBERS, c)
    last,                 \* the callback that ran last, with its inputs
    fx                    \* what that callback did: pulls, calls, toasts, threw

settingsVars == <<pullOnLeashSet, onlyManualTrigger, leashReleaseOnLeave,
                  autoPullBack, waitForSpace>>
hostVars == <<userLimit, channelType, canConnect, canMove>>
vars == <<handlerUserId, settingsVars, voice, hostVars, last, fx>>

\* ------------------------------------------------------ recorded effects
\* ChannelActions.selectVoiceChannel(c) / ChannelActions.disconnect()
SelectVoiceChannel(c) == [op |-> "selectVoiceChannel", ch |-> c]
Disconnect == [op |-> "disconnect", ch |-> Null]

\* nothing done
NoFx == [pulls |-> <<>>, calls |-> <<>>, toasts |-> <<>>, threw |-> FALSE]
\* an exception left the callback
Throw == [pulls |-> <<>>, calls |-> <<>>, toasts |-> <<>>, threw |-> TRUE]
\* Toasts.show({message: m, ...})
Toast(m) == [pulls |-> <<>>, calls |-> <<>>, toasts |-> <<m>>, threw |-> FALSE]
\* an action call followed by its toast
CallAndToast(c, m) == [pulls |-> <<>>, calls |-> <<c>>, toasts |-> <<m>>, threw |-> FALSE]
\* f, then g unless f threw
Then(f, g) ==
    IF f.threw THEN f
    ELSE [pulls |-> f.pulls \o g.pulls, calls |-> f.calls \o g.calls,
          toasts |-> f.toasts \o g.toasts, threw |-> g.threw]

\* ------------------------------------------------------- the host stores
\* VoiceStateStore.getVoiceStatesForChannel(c): the users whose state is in c
\* (an absent map and an empty one are the same to both callers: a count of
\* null skips the checks a count of 0 fails for every userLimit)
GetVoiceStatesForChannel(v, c) == {u \in Users : v[u] = c}

\* SelectedChannelStore.getVoiceChannelId()
GetVoiceChannelId(v) == v[Me]

\* getChannelId(userId): null for no user id, for a failing store, for a user
\* in no voice state, and the user's channel otherwise
GetChannelId(userId, v, err) ==
    IF userId = NoHandler THEN Null
    ELSE IF err = "getAllVoiceStates" THEN Null
    ELSE IF userId \in DOMAIN v THEN v[userId]
    ELSE Null

\* ------------------------------------------------------- triggerLeashPull
\* a faulty ChannelFull: a channel exactly at its limit passes
ChannelFullAboveLimit(c, v) ==
    /\ userLimit[c] # 0
    /\ Cardinality(GetVoiceStatesForChannel(v, c)) > userLimit[c]
    /\ ~canMove[c]

\* the occupancy test: at or above a limit the user cannot override
ChannelFull(c, v) ==
    LET memberCount == Cardinality(GetVoiceStatesForChannel(v, c)) IN
    /\ userLimit[c] # 0
    /\ memberCount >= userLimit[c]
    /\ ~canMove[c]

\* the decision table of triggerLeashPull, below its first line
PullDecision(targetChannelId, hid, v, err) ==
    LET myChanId == GetVoiceChannelId(v) IN
    IF targetChannelId # Null THEN
        IF targetChannelId # myChanId THEN
            IF err = "getVoiceStatesForChannel" THEN Throw
            ELSE
            IF channelType[targetChannelId] = 1 \/ canConnect[targetChannelId] THEN
                IF ChannelFull(targetChannelId, v) THEN Toast("full")
                ELSE CallAndToast(SelectVoiceChannel(targetChannelId), "pulled")
            ELSE Toast("noPermission")
        ELSE Toast("already")
    ELSE IF myChanId # Null THEN
        IF leashReleaseOnLeave THEN CallAndToast(Disconnect, "tookYou")
        ELSE Toast("released")
    ELSE Toast("notInVoice")

\* a faulty PullBody: the return after the "full" toast is missing
PullBodyFallsThrough(targetChannelId, hid, v, err) ==
    IF hid = NoHandler THEN NoFx
    ELSE LET r == PullDecision(targetChannelId, hid, v, err) IN
         IF r.toasts = <<"full">>
         THEN Then(r, CallAndToast(SelectVoiceChannel(targetChannelId), "pulled"))
         ELSE r

\* a faulty PullBody: the handlerUserId check of its first line is dropped
PullBodyUnguarded(targetChannelId, hid, v, err) ==
    PullDecision(targetChannelId, hid, v, err)

\* a faulty PullBody: leashReleaseOnLeave is read as always disabled
PullBodyNeverTakes(targetChannelId, hid, v, err) ==
    IF hid = NoHandler THEN NoFx
    ELSE LET r == PullDecision(targetChannelId, hid, v, err) IN
         IF r.toasts = <<"tookYou">> THEN Toast("released") ELSE r

\* a faulty PullBody: userLimit 0 is taken as a limit, not as unlimited
PullBodyUnlimitedIsFull(targetChannelId, hid, v, err) ==
    IF hid = NoHandler THEN NoFx
    ELSE LET r == PullDecision(targetChannelId, hid, v, err) IN
         IF r.toasts = <<"pulled">> /\ userLimit[targetChannelId] = 0 /\ ~canMove[targetChannelId]
         THEN Toast("full") ELSE r

\* a faulty PullBody: the same-channel test is dropped
PullBodyRejoins(targetChannelId, hid, v, err) ==
    IF hid = NoHandler THEN NoFx
    ELSE LET r == PullDecision(targetChannelId, hid, v, err) IN
         IF r.toasts = <<"already">>
         THEN CallAndToast(SelectVoiceChannel(targetChannelId), "pulled") ELSE r

\* a faulty PullBody: the CONNECT test is dropped
PullBodyNoPermissionCheck(targetChannelId, hid, v, err) ==
    IF hid = NoHandler THEN NoFx
    ELSE LET r == PullDecision(targetChannelId, hid, v, err) IN
         IF r.toasts # <<"noPermission">> THEN r
         ELSE IF ChannelFull(targetChannelId, v) THEN Toast("full")
         ELSE CallAndToast(SelectVoiceChannel(targetChannelId), "pulled")

\* a faulty PullBody: leashReleaseOnLeave is read as always enabled
PullBodyAlwaysTakes(targetChannelId, hid, v, err) ==
    IF hid = NoHandler THEN NoFx
    ELSE LET r == PullDecision(targetChannelId, hid, v, err) IN
         IF r.toasts = <<"released">> THEN CallAndToast(Disconnect, "tookYou") ELSE r

\* the body of triggerLeashPull once targetChannelId is bound
PullBody(targetChannelId, hid, v, err) ==
    IF hid = NoHandler THEN NoFx
    ELSE PullDecision(targetChannelId, hid, v, err)

\* triggerLeashPull(targetChannelId): one invocation, remembered in pulls
TriggerLeashPull(targetChannelId, hid, v, err) ==
    LET r == PullBody(targetChannelId, hid, v, err) IN
    [r EXCEPT !.pulls = <<targetChannelId>>]

\* triggerLeashPull(): the default parameter is getChannelId(handlerUserId)
TriggerLeashPullDefault(hid, v, err) ==
    TriggerLeashPull(GetChannelId(hid, v, err), hid, v, err)

\* ------------------------------------------------------------ toggleLeash
\* a faulty ToggleHandler: the handler is assigned, never cleared
ToggleHandlerNeverClears(hid, userId) == userId

\* settings.store.handlerUserId after toggleLeash(userId)
ToggleHandler(hid, userId) == IF hid = userId THEN NoHandler ELSE userId

\* a faulty ToggleFx: onlyManualTrigger suppresses the pull of toggleLeash
ToggleFxHonoursManualOnly(hid, userId, v, err) ==
    IF hid = userId THEN NoFx
    ELSE IF pullOnLeashSet /\ ~onlyManualTrigger THEN TriggerLeashPullDefault(userId, v, err)
    ELSE NoFx

\* what toggleLeash(userId) does besides the assignment
ToggleFx(hid, userId, v, err) ==
    IF hid = userId THEN NoFx
    ELSE IF pullOnLeashSet THEN TriggerLeashPullDefault(userId, v, err)
    ELSE NoFx

\* --------------------------------------------------- VOICE_STATE_UPDATES
\* settings.store.autoMoveBack: the settings define no such key (the option
\* is named autoPullBack), so the read yields undefined
autoMoveBack == FALSE

\* one voice state of a batch
VoiceState(u, c, old) == [userId |-> u, channelId |-> c, oldChannelId |-> old]

\* a faulty SlotOpened: the channel must still be at its limit
SlotOpenedAtLimit(e, hid, v) ==
    /\ userLimit[e.oldChannelId] # 0
    /\ Cardinality(GetVoiceStatesForChannel(v, e.oldChannelId)) = userLimit[e.oldChannelId]
    /\ ~canMove[e.oldChannelId]
    /\ hid \in GetVoiceStatesForChannel(v, e.oldChannelId)

\* the waitForSpace test of one voice state: a slot opened beside the handler
SlotOpened(e, hid, v) ==
    LET channelVoiceStates == GetVoiceStatesForChannel(v, e.oldChannelId)
        memberCount == Cardinality(channelVoiceStates)
    IN /\ userLimit[e.oldChannelId] # 0
       /\ memberCount = userLimit[e.oldChannelId] - 1
       /\ ~canMove[e.oldChannelId]
       /\ hid \in channelVoiceStates

\* the loop body for a voice state whose channel changed
HandleChanged(e, hid, v, err) ==
    LET isMe == e.userId = Me
        isLeashed == hid = e.userId
        departure == /\ waitForSpace /\ ~isMe
                     /\ e.channelId = Null /\ e.oldChannelId # Null
                     /\ e.oldChannelId # GetVoiceChannelId(v)
    IN
    IF autoMoveBack /\ isMe /\ e.channelId # Null /\ e.oldChannelId # Null
    THEN TriggerLeashPullDefault(hid, v, err)
    ELSE IF departure /\ err = "getVoiceStatesForChannel" THEN Throw
    ELSE IF departure /\ SlotOpened(e, hid, v)
    THEN TriggerLeashPull(e.oldChannelId, hid, v, err)
    ELSE IF ~isLeashed THEN NoFx
    ELSE IF e.channelId # Null THEN TriggerLeashPull(e.channelId, hid, v, err)
    ELSE IF e.oldChannelId # Null THEN TriggerLeashPull(Null, hid, v, err)
    ELSE NoFx

\* a faulty HandleVoiceState: voice states whose channel did not change are
\* handled like the others
HandleVoiceStateUnchangedToo(e, hid, v, err) == HandleChanged(e, hid, v, err)

\* the loop body for one voice state
HandleVoiceState(e, hid, v, err) ==
    IF e.channelId = e.oldChannelId THEN NoFx
    ELSE HandleChanged(e, hid, v, err)

RECURSIVE ForEachVoiceState(_, _, _, _)
\* for (const ... of voiceStates): an exception ends the loop
ForEachVoiceState(voiceStates, hid, v, err) ==
    IF voiceStates = <<>> THEN NoFx
    ELSE Then(HandleVoiceState(Head(voiceStates), hid, v, err),
              ForEachVoiceState(Tail(voiceStates), hid, v, err))

\* a faulty OnVoiceStateUpdates: the early return is dropped
OnVoiceStateUpdatesAlways(voiceStates, hid, v, err) ==
    ForEachVoiceState(voiceStates, hid, v, err)

\* the flux handler
OnVoiceStateUpdates(voiceStates, hid, v, err) ==
    IF onlyManualTrigger \/ hid = NoHandler THEN NoFx
    ELSE ForEachVoiceState(voiceStates, hid, v, err)

\* ------------------------------------------------- batches the host sends
RECURSIVE BatchesFrom(_, _)
\* the batches of at most n voice states that can follow store v: each voice
\* state names the user's channel before it as oldChannelId
BatchesFrom(v, n) ==
    IF n = 0 THEN {<<>>}
    ELSE {<<>>} \cup UNION {
            {<<VoiceState(uc[1], uc[2], v[uc[1]])>> \o rest :
                rest \in BatchesFrom([v EXCEPT ![uc[1]] = uc[2]], n - 1)} :
            uc \in Users \X (Channels \cup {Null})}

RECURSIVE StoreAfter(_, _)
\* VoiceStateStore once it has handled the batch (stores run before plugins)
StoreAfter(v, voiceStates) ==
    IF voiceStates = <<>> THEN v
    ELSE StoreAfter([v EXCEPT ![Head(voiceStates).userId] = Head(voiceStates).channelId],
                    Tail(voiceStates))

\* ------------------------------------------------------------ the program
\* the record of the callback that ran last: its name, its argument (a user
\* id or a target channel), its batch, what the host's queries did, the
\* handlerUserId it found, and name, argument and handlerUserId of the
\* callback before it
Ran(op, arg, voiceStates, err, before) ==
    [op |-> op, arg |-> arg, voiceStates |-> voiceStates, err |-> err,
     before |-> before, prev |-> <<last.op, last.arg, last.before>>]

\* no callback has run since the host last looked
IdleRecord ==
    [op |-> "idle", arg |-> NoHandler, voiceStates |-> <<>>, err |-> "none",
     before |-> NoHandler, prev |-> <<"idle", NoHandler, NoHandler>>]

Idle == last.op = "idle"

\* a guild voice channel anyone may enter
Open(c) ==
    /\ userLimit[c] = 0 /\ channelType[c] = 0 /\ canConnect[c] /\ ~canMove[c]

\* the settings as definePluginSettings declares them
DefaultSettings ==
    /\ pullOnLeashSet = TRUE
    /\ onlyManualTrigger = FALSE
    /\ leashReleaseOnLeave = FALSE
    /\ autoPullBack = FALSE
    /\ waitForSpace = TRUE

AnySettings ==
    /\ pullOnLeashSet \in BOOLEAN /\ onlyManualTrigger \in BOOLEAN
    /\ leashReleaseOnLeave \in BOOLEAN /\ autoPullBack \in BOOLEAN
    /\ waitForSpace \in BOOLEAN

\* the host: every user anywhere; c1 with any limit, type and permissions,
\* c2 open
AnyHost ==
    /\ voice \in [Users -> Channels \cup {Null}]
    /\ userLimit \in [Channels -> Limits]
    /\ channelType \in [Channels -> {0, 1}]
    /\ canConnect \in [Channels -> BOOLEAN]
    /\ canMove \in [Channels -> BOOLEAN]
    /\ Open("c2")

NothingRan == last = IdleRecord /\ fx = NoFx

\* first activation: the declared defaults, in any host
Init ==
    /\ handlerUserId = NoHandler
    /\ DefaultSettings
    /\ AnyHost
    /\ NothingRan

\* toggleLeash(u)
ToggleLeash(u) ==
    /\ \E err \in HostErrors :
        /\ handlerUserId' = ToggleHandler(handlerUserId, u)
        /\ fx' = ToggleFx(handlerUserId, u, voice, err)
        /\ last' = Ran("toggleLeash", u, <<>>, err, handlerUserId)
    /\ UNCHANGED <<settingsVars, voice, hostVars>>

\* a faulty UserContext: the entry is added for the current user too
UserContextForAnyUser(u) == ToggleLeash(u)

\* "user-context" menu entry of user u: toggleLeash(u.id); the entry is not
\* added for the current user
UserContext(u) ==
    /\ u # Me
    /\ ToggleLeash(u)

\* a faulty IndicatorClick: a pull that shows "leash released" clears
\* handlerUserId
IndicatorClickReleases ==
    /\ handlerUserId # NoHandler
    /\ \E err \in HostErrors :
        /\ fx' = TriggerLeashPullDefault(handlerUserId, voice, err)
        /\ last' = Ran("click", NoHandler, <<>>, err, handlerUserId)
    /\ handlerUserId' = IF fx'.toasts = <<"released">> THEN NoHandler ELSE handlerUserId
    /\ UNCHANGED <<settingsVars, voice, hostVars>>

\* LeashIndicator onClick: triggerLeashPull(); rendered only with a handler
IndicatorClick ==
    /\ handlerUserId # NoHandler
    /\ \E err \in HostErrors :
        /\ fx' = TriggerLeashPullDefault(handlerUserId, voice, err)
        /\ last' = Ran("click", NoHandler, <<>>, err, handlerUserId)
    /\ UNCHANGED <<handlerUserId, settingsVars, voice, hostVars>>

\* LeashIndicator onContextMenu: unleash
IndicatorContextMenu ==
    /\ handlerUserId # NoHandler
    /\ handlerUserId' = NoHandler
    /\ fx' = NoFx
    /\ last' = Ran("unleash", NoHandler, <<>>, "none", handlerUserId)
    /\ UNCHANGED <<settingsVars, voice, hostVars>>

\* flux VOICE_STATE_UPDATES: the store takes the batch, then the plugin runs.
\* The handler reaches getAllVoiceStates only behind autoMoveBack.
VoiceStateUpdates ==
    \E voiceStates \in BatchesFrom(voice, MaxBatch),
       err \in {"none", "getVoiceStatesForChannel"} :
        /\ voice' = StoreAfter(voice, voiceStates)
        /\ fx' = OnVoiceStateUpdates(voiceStates, handlerUserId, voice', err)
        /\ last' = Ran("VOICE_STATE_UPDATES", NoHandler, voiceStates, err, handlerUserId)
        /\ UNCHANGED <<handlerUserId, settingsVars, hostVars>>

\* the callback has returned to the host's event loop
Return ==
    /\ ~Idle
    /\ last' = IdleRecord
    /\ fx' = NoFx
    /\ UNCHANGED <<handlerUserId, settingsVars, voice, hostVars>>

Next ==
    \/ Idle /\ \E u \in Users : UserContext(u)
    \/ Idle /\ IndicatorClick
    \/ Idle /\ IndicatorContextMenu
    \/ Idle /\ VoiceStateUpdates
    \/ Return

\* the plugin from its first activation, one callback at a time
Spec == Init /\ [][Next]_vars

\* ------------------------------------------------- the flux handler alone
\* any stored policy the handler can tell apart, in any host.  The handler
\* reads neither pullOnLeashSet nor autoPullBack (left at its default, and
\* enabled), compares handlerUserId only for equality (h stands for any
\* handler) and reads channel types only in triggerLeashPull (SpecPull draws
\* them).
InitEvents ==
    /\ handlerUserId \in {NoHandler, "h"}
    /\ AnySettings /\ pullOnLeashSet = TRUE /\ autoPullBack = TRUE
    /\ AnyHost /\ channelType["c1"] = 0
    /\ NothingRan

NextEvents == Idle /\ VoiceStateUpdates

SpecEvents == InitEvents /\ [][NextEvents]_vars

\* ---------------------------------------------- triggerLeashPull alone
InitPull ==
    /\ handlerUserId \in Others \cup {NoHandler}
    /\ AnySettings
    /\ AnyHost
    /\ NothingRan

\* triggerLeashPull(targetChannelId) or triggerLeashPull()
CallTriggerLeashPull ==
    \E target \in Channels \cup {Null, "default"}, err \in HostErrors :
        /\ fx' = IF target = "default"
                 THEN TriggerLeashPullDefault(handlerUserId, voice, err)
                 ELSE TriggerLeashPull(target, handlerUserId, voice, err)
        /\ last' = Ran("triggerLeashPull", target, <<>>, err, handlerUserId)
        /\ UNCHANGED <<handlerUserId, settingsVars, voice, hostVars>>

NextPull == Idle /\ CallTriggerLeashPull

SpecPull == InitPull /\ [][NextPull]_vars

\* --------------------------------------------------- toggleLeash repeated
InitToggle ==
    /\ handlerUserId \in Others \cup {NoHandler}
    /\ AnySettings
    /\ AnyHost /\ Open("c1")
    /\ NothingRan

NextToggle == \E u \in Users : UserContext(u)

SpecToggle == InitToggle /\ [][NextToggle]_vars

\* ------------------------------------ the plugin under the stored policy
\* the plugin as Spec runs it, with the two toggles that decide when a pull
\* runs on its own and whether it disconnects (onlyManualTrigger,
\* leashReleaseOnLeave) as the settings UI left them, the others at their
\* defaults, and c1 a guild channel the user may connect to, of any limit,
\* without the override
InitPolicy ==
    /\ handlerUserId = NoHandler
    /\ AnySettings
    /\ pullOnLeashSet = TRUE /\ autoPullBack = FALSE /\ waitForSpace = TRUE
    /\ AnyHost
    /\ channelType["c1"] = 0 /\ canConnect["c1"] /\ ~canMove["c1"]
    /\ NothingRan

SpecPolicy == InitPolicy /\ [][Next]_vars

\* ================================================================ claims
IsBatch == last.op = "VOICE_STATE_UPDATES"
IsPull == last.op = "triggerLeashPull"
IsToggle == last.op = "toggleLeash"

\* the voice states of the last batch whose channel changed
ChangedStates ==
    {i \in DOMAIN last.voiceStates :
        last.voiceStates[i].channelId # last.voiceStates[i].oldChannelId}

\* the channel of user u before the last batch
ChannelBefore(u) ==
    LET mine == {i \in DOMAIN last.voiceStates : last.voiceStates[i].userId = u} IN
    IF mine = {} THEN voice[u]
    ELSE last.voiceStates[CHOOSE i \in mine : \A j \in mine : i <= j].oldChannelId

MembersBefore(c) == {u \in Users : ChannelBefore(u) = c}

\* the target the last directly called pull was bound to
PullTarget == fx.pulls[1]

Joins == {i \in DOMAIN fx.calls : fx.calls[i].op = "selectVoiceChannel"}
Disconnects == {i \in DOMAIN fx.calls : fx.calls[i].op = "disconnect"}

\* the last batch reports the current user moved between two channels
MovedMe ==
    \E i \in DOMAIN last.voiceStates :
        LET e == last.voiceStates[i] IN
        /\ e.userId = Me /\ e.channelId # Null /\ e.oldChannelId # Null
        /\ e.channelId # e.oldChannelId

\* C1: with autoPullBack enabled, a handler set and onlyManualTrigger
\* disabled, a batch reporting the current user moved from one channel to
\* another makes the handler run a pull toward the handler's current channel.
C1_MovedAwayPullsBack ==
    (/\ IsBatch /\ last.err = "none"
     /\ autoPullBack /\ handlerUserId # NoHandler /\ ~onlyManualTrigger
     /\ MovedMe)
    => \E j \in DOMAIN fx.pulls : fx.pulls[j] = voice[handlerUserId]

\* C2 as claimed: a batch leads to at most one channel action and at most
\* one notification, whatever its length.
C2_OneActionPerBatch ==
    IsBatch => Len(fx.calls) <= 1 /\ Len(fx.toasts) <= 1

\* C2 as amended: a batch leads to at most one pull per voice state whose
\* channel changed, each pull to at most one notification and each
\* notification to at most one channel action.
C2_OneActionPerVoiceState ==
    IsBatch =>
        /\ Len(fx.calls) <= Len(fx.toasts)
        /\ Len(fx.toasts) <= Len(fx.pulls)
        /\ Len(fx.pulls) <= Cardinality(ChangedStates)

\* two voice states of one batch each led to a channel action
C2_Witness == IsBatch /\ Len(fx.calls) = 2 /\ Len(fx.toasts) = 2

\* toggleLeash(X) has just run right after toggleLeash(X)
ToggledTwice ==
    /\ IsToggle /\ last.prev[1] = "toggleLeash" /\ last.prev[2] = last.arg

\* C3 as claimed: toggleLeash(X) twice in a row leaves handlerUserId as it
\* was before the first call, whatever it was.
C3_ToggleTwiceRestores ==
    ToggledTwice => handlerUserId = last.prev[3]

\* C3 as amended: toggleLeash(X) twice in a row restores a handlerUserId
\* that was empty or X, and leaves it empty when it was another user.
C3_ToggleTwiceRestoresOwn ==
    ToggledTwice =>
        handlerUserId = IF last.prev[3] \in {NoHandler, last.arg}
                        THEN last.prev[3] ELSE NoHandler

\* the handler was another user, and two toggleLeash(h) left none
C3_Witness ==
    /\ ToggledTwice /\ last.arg = "h" /\ last.prev[3] = "a"
    /\ handlerUserId = NoHandler

\* C4: with waitForSpace enabled, a handler set and onlyManualTrigger
\* disabled, when the handler's channel was full for the current user and
\* the batch opens a slot in it, the handler runs a pull targeting it.
C4_OpenedSlotPulls ==
    LET c == ChannelBefore(handlerUserId) IN
    (/\ IsBatch /\ last.err = "none"
     /\ waitForSpace /\ handlerUserId # NoHandler /\ ~onlyManualTrigger
     /\ c # Null /\ ChannelBefore(Me) # c
     /\ userLimit[c] # 0 /\ ~canMove[c]
     /\ Cardinality(MembersBefore(c)) >= userLimit[c]
     /\ voice[handlerUserId] = c /\ voice[Me] # c
     /\ Cardinality(GetVoiceStatesForChannel(voice, c)) < userLimit[c])
    => \E j \in DOMAIN fx.pulls : fx.pulls[j] = c

\* the target of a direct pull is at or above a limit the user cannot override
TargetFull ==
    /\ IsPull /\ handlerUserId # NoHandler
    /\ PullTarget # Null
    /\ userLimit[PullTarget] > 0 /\ ~canMove[PullTarget]
    /\ Cardinality(GetVoiceStatesForChannel(voice, PullTarget)) >= userLimit[PullTarget]

\* C5 as claimed: a pull to a full channel without the override never joins
\* and shows "channel full" once, whatever CONNECT and the current channel.
C5_FullNeverJoinsAlwaysSaysFull ==
    (TargetFull /\ last.err = "none") => Joins = {} /\ fx.toasts = <<"full">>

\* C5 as amended: a pull to a full channel without the override never joins;
\* unless the occupancy query fails, it shows "channel full" once when the
\* user is elsewhere and holds CONNECT or the channel is a one-to-one call,
\* "already with your handler" when the user is in the target, and
\* "insufficient permissions" otherwise.
C5_FullNeverJoins ==
    TargetFull =>
        /\ fx.calls = <<>>
        /\ ~fx.threw =>
            fx.toasts =
                IF PullTarget = voice[Me] THEN <<"already">>
                ELSE IF channelType[PullTarget] = 1 \/ canConnect[PullTarget]
                     THEN <<"full">>
                     ELSE <<"noPermission">>

\* a pull to a channel exactly at its limit was refused as full
C5_Witness ==
    /\ TargetFull /\ fx.toasts = <<"full">>
    /\ Cardinality(GetVoiceStatesForChannel(voice, PullTarget)) = userLimit[PullTarget]

\* C6: a pull during which a voice-state query fails raises nothing and
\* still shows exactly one notification.
C6_FailingQueryIsCaught ==
    (IsPull /\ handlerUserId # NoHandler /\ last.err # "none")
    => ~fx.threw /\ Len(fx.toasts) = 1

\* C7: a pull with a handler set shows exactly one notification and makes at
\* most one channel action, for every target, current channel, permission,
\* occupancy and leashReleaseOnLeave the host's queries answer with; a pull
\* during which a query fails still makes at most one of each, and exactly
\* one notification unless the failure leaves triggerLeashPull.
C7_OneToastAtMostOneAction ==
    (IsPull /\ handlerUserId # NoHandler) =>
        /\ Len(fx.calls) <= 1 /\ Len(fx.toasts) <= 1
        /\ last.err = "none" => ~fx.threw
        /\ ~fx.threw => Len(fx.toasts) = 1

\* a pull refused a full channel: one notification, no action
C7_Witness ==
    /\ IsPull /\ handlerUserId # NoHandler /\ last.err = "none"
    /\ fx.toasts = <<"full">> /\ fx.calls = <<>>

\* C8: with no handler set, triggerLeashPull does nothing, with or without
\* an explicit target.
C8_NoHandlerNoOp ==
    (IsPull /\ handlerUserId = NoHandler) =>
        fx.calls = <<>> /\ fx.toasts = <<>> /\ ~fx.threw

\* a pull with no handler set was called with a target the user could join
C8_Witness ==
    /\ IsPull /\ handlerUserId = NoHandler
    /\ last.arg \in Channels /\ last.arg # voice[Me] /\ Open(last.arg)

\* C9: with onlyManualTrigger enabled or no handler set, the handler does
\* nothing for any batch.
C9_ManualOnlyIgnoresEvents ==
    (IsBatch /\ (onlyManualTrigger \/ handlerUserId = NoHandler)) =>
        fx.calls = <<>> /\ fx.toasts = <<>> /\ fx.pulls = <<>>

\* onlyManualTrigger is enabled and the batch reports the handler entering a
\* channel the user is not in
C9_Witness ==
    /\ IsBatch /\ onlyManualTrigger /\ handlerUserId # NoHandler
    /\ \E i \in ChangedStates :
        /\ last.voiceStates[i].userId = handlerUserId
        /\ last.voiceStates[i].channelId \notin {Null, voice[Me]}

\* C10: handlerUserId never is the current user's id.
C10_NeverLeashedToSelf == handlerUserId # Me

\* a batch was handled with a handler chosen earlier from the menu
C10_Witness == IsBatch /\ handlerUserId \in Others /\ fx.pulls # <<>>

\* the last batch is one voice state, about the handler, handled automatically
OneAboutHandler ==
    /\ IsBatch /\ handlerUserId # NoHandler /\ ~onlyManualTrigger
    /\ Len(last.voiceStates) = 1
    /\ last.voiceStates[1].userId = handlerUserId

\* the handler left voice entirely while the current user is in a channel
HandlerLeft ==
    /\ OneAboutHandler
    /\ last.voiceStates[1].channelId = Null
    /\ last.voiceStates[1].oldChannelId # Null
    /\ voice[Me] # Null

\* C11: when a batch is the single voice state of the handler leaving voice
\* while the current user is in a channel, and onlyManualTrigger is
\* disabled, the handler never joins; once the host's queries answer it
\* disconnects exactly once and shows one notification if
\* leashReleaseOnLeave is enabled, and shows one notification and makes no
\* action if it is disabled.
C11_HandlerLeftReleasesOrTakes ==
    HandlerLeft =>
        /\ Joins = {}
        /\ last.err = "none" => ~fx.threw
        /\ ~fx.threw =>
            /\ fx.calls = IF leashReleaseOnLeave THEN <<Disconnect>> ELSE <<>>
            /\ fx.toasts = IF leashReleaseOnLeave THEN <<"tookYou">> ELSE <<"released">>

\* the handler left another channel than the user's, and took the user along
C11_Witness ==
    /\ HandlerLeft /\ leashReleaseOnLeave
    /\ last.voiceStates[1].oldChannelId # voice[Me]
    /\ fx.calls = <<Disconnect>>

\* the handler entered an unlimited channel the current user is not in
HandlerEnteredUnlimited ==
    /\ OneAboutHandler /\ last.err = "none"
    /\ last.voiceStates[1].channelId # Null
    /\ last.voiceStates[1].channelId # last.voiceStates[1].oldChannelId
    /\ userLimit[last.voiceStates[1].channelId] = 0
    /\ last.voiceStates[1].channelId # voice[Me]

\* C12 as claimed: when a batch is the single voice state of the handler
\* entering an unlimited channel C the current user is not in, and
\* onlyManualTrigger is disabled, the handler joins C exactly once,
\* disconnects nothing and shows one success notification, whatever the
\* user's permissions on C.
C12_HandlerEnteredJoins ==
    HandlerEnteredUnlimited =>
        /\ fx.calls = <<SelectVoiceChannel(last.voiceStates[1].channelId)>>
        /\ fx.toasts = <<"pulled">>

\* C12 as amended: in that batch the handler joins C exactly once,
\* disconnects nothing and shows one success notification when the user
\* holds CONNECT on C or C is a one-to-one call; otherwise it makes no action
\* and shows "insufficient permissions" once.
C12_HandlerEnteredJoinsIfPermitted ==
    LET C == last.voiceStates[1].channelId IN
    HandlerEnteredUnlimited =>
        IF channelType[C] = 1 \/ canConnect[C]
        THEN fx.calls = <<SelectVoiceChannel(C)>> /\ fx.toasts = <<"pulled">>
        ELSE fx.calls = <<>> /\ fx.toasts = <<"noPermission">>

\* the handler entered an unlimited channel the user may connect to, from
\* the channel the user is in, and the user was pulled along
C12_Witness ==
    /\ HandlerEnteredUnlimited
    /\ last.voiceStates[1].oldChannelId = voice[Me] /\ voice[Me] # Null
    /\ fx.calls = <<SelectVoiceChannel(last.voiceStates[1].channelId)>>

\* a third user left voice from a channel E the current user is not in and
\* cannot override, leaving E one member below its limit, the handler among
\* them
ThirdUserLeftSlot ==
    /\ IsBatch /\ last.err = "none"
    /\ handlerUserId # NoHandler /\ ~onlyManualTrigger /\ waitForSpace
    /\ Len(last.voiceStates) = 1
    /\ last.voiceStates[1].userId \notin {Me, handlerUserId}
    /\ last.voiceStates[1].channelId = Null
    /\ last.voiceStates[1].oldChannelId # Null
    /\ LET E == last.voiceStates[1].oldChannelId IN
        /\ voice[Me] # E /\ ~canMove[E]
        /\ Cardinality(GetVoiceStatesForChannel(voice, E)) = userLimit[E] - 1
        /\ voice[handlerUserId] = E

\* C13 as claimed: when a batch is the single voice state of a third user
\* leaving voice from E, leaving E with userLimit-1 members including the
\* handler, with waitForSpace enabled, onlyManualTrigger disabled and the
\* current user outside E without the override, the handler joins E exactly
\* once, whatever the user's permissions on E.
C13_SlotOpenedJoins ==
    ThirdUserLeftSlot =>
        fx.calls = <<SelectVoiceChannel(last.voiceStates[1].oldChannelId)>>

\* C13 as amended: in that batch the handler runs one pull targeting E,
\* which joins E exactly once when the user holds CONNECT on E or E is a
\* one-to-one call, and otherwise makes no action and shows "insufficient
\* permissions" once.
C13_SlotOpenedJoinsIfPermitted ==
    LET E == last.voiceStates[1].oldChannelId IN
    ThirdUserLeftSlot =>
        /\ fx.pulls = <<E>>
        /\ IF channelType[E] = 1 \/ canConnect[E]
           THEN fx.calls = <<SelectVoiceChannel(E)>> /\ fx.toasts = <<"pulled">>
           ELSE fx.calls = <<>> /\ fx.toasts = <<"noPermission">>

\* the slot a third user left was taken: the user joined the handler
C13_Witness ==
    /\ ThirdUserLeftSlot
    /\ fx.calls = <<SelectVoiceChannel(last.voiceStates[1].oldChannelId)>>

\* C14: a pull whose target is the current user's channel makes no channel
\* action, neither join nor disconnect, for a target passed by the caller
\* (the event handler) and for the default one (click, toggleLeash), in
\* every policy and host; with both absent it makes none either.
C14_SameChannelNoAction ==
    (IsPull /\ PullTarget = voice[Me]) => fx.calls = <<>> /\ ~fx.threw

\* a pull found the user already in the target, although the user could
\* have entered it and would leave with the handler
C14_Witness ==
    /\ IsPull /\ handlerUserId # NoHandler /\ leashReleaseOnLeave
    /\ PullTarget # Null /\ PullTarget = voice[Me]
    /\ ~ChannelFull(PullTarget, voice) /\ canConnect[PullTarget]
    /\ fx.toasts = <<"already">>

\* every join of the last callback went to a channel the user may connect
\* to (or a one-to-one call) that is unlimited, below its limit, or one the
\* user can override
JoinsArePermitted ==
    \A i \in Joins :
        LET c == fx.calls[i].ch IN
        /\ channelType[c] = 1 \/ canConnect[c]
        /\ \/ userLimit[c] = 0
           \/ Cardinality(GetVoiceStatesForChannel(voice, c)) < userLimit[c]
           \/ canMove[c]

\* a pull targets a guild channel on which the user lacks CONNECT
TargetForbidden ==
    /\ IsPull /\ handlerUserId # NoHandler /\ last.err = "none"
    /\ PullTarget # Null
    /\ channelType[PullTarget] # 1 /\ ~canConnect[PullTarget]

\* C15 as claimed: every join goes to a permitted channel with room or an
\* override, and a pull to a guild channel without CONNECT shows
\* "insufficient permissions" and makes no action, wherever the user is.
C15_JoinPermittedElseSaysSo ==
    /\ JoinsArePermitted
    /\ TargetForbidden => fx.calls = <<>> /\ fx.toasts = <<"noPermission">>

\* C15 as amended: every join goes to a permitted channel with room or an
\* override; a pull to a guild channel without CONNECT makes no action, and
\* shows "insufficient permissions" when the user is elsewhere and "already
\* with your handler" when the user is in that channel.
C15_JoinPermittedElseNoAction ==
    /\ JoinsArePermitted
    /\ TargetForbidden =>
        /\ fx.calls = <<>>
        /\ fx.toasts = IF PullTarget = voice[Me] THEN <<"already">>
                       ELSE <<"noPermission">>

\* a pull to an unlimited guild channel was refused for the missing CONNECT
C15_Witness ==
    /\ TargetForbidden /\ userLimit[PullTarget] = 0
    /\ fx.toasts = <<"noPermission">>

\* C16: toggleLeash(X) with another handlerUserId sets it to X and runs
\* exactly one pull, toward X's channel, if pullOnLeashSet is enabled
\* (whatever onlyManualTrigger) and none if it is disabled; toggleLeash(X)
\* with handlerUserId X clears it, makes no action and shows no notification.
C16_ToggleSetsAndPullsOrClears ==
    IsToggle =>
        IF last.before # last.arg
        THEN /\ handlerUserId = last.arg
             /\ IF pullOnLeashSet
                THEN /\ fx.pulls = <<GetChannelId(last.arg, voice, last.err)>>
                     /\ Len(fx.toasts) <= 1 /\ Len(fx.calls) <= 1
                     /\ ~fx.threw => Len(fx.toasts) = 1
                ELSE fx = NoFx
        ELSE handlerUserId = NoHandler /\ fx = NoFx

\* with onlyManualTrigger enabled, leashing to a user in another channel
\* pulled the current user there
C16_Witness ==
    /\ IsToggle /\ last.before # last.arg /\ onlyManualTrigger /\ pullOnLeashSet
    /\ fx.calls = <<SelectVoiceChannel(voice[handlerUserId])>>

\* C17: a pull from the indicator and the voice-state handler leave
\* handlerUserId and the five toggles as they found them, also when the pull
\* shows "leash released" or disconnects; handlerUserId changes only in
\* toggleLeash and in the indicator's unleash, and no callback changes a
\* toggle.
C17_PolicyFrame ==
    [][/\ last'.op \in {"click", "VOICE_STATE_UPDATES"}
            => UNCHANGED <<handlerUserId, settingsVars>>
       /\ handlerUserId' # handlerUserId => last'.op \in {"toggleLeash", "unleash"}
       /\ UNCHANGED settingsVars]_vars

\* a click on the indicator found the handler gone and said "leash
\* released", and the user is still leashed
C17_Witness ==
    /\ last.op = "click" /\ fx.toasts = <<"released">>
    /\ handlerUserId # NoHandler /\ handlerUserId = last.before

\* C18: whenever a callback disconnects, the handler is in no voice channel
\* of the store at that moment, also when a voice-state query fails and when
\* a batch holds several voice states of the handler.
C18_DisconnectOnlyWhenHandlerGone ==
    Disconnects # {} => voice[handlerUserId] = Null

\* C19: while leashReleaseOnLeave is disabled, no callback of any sequence
\* of clicks, toggleLeash calls and batches disconnects.
C19_NoDisconnectWhileDisabled ==
    ~leashReleaseOnLeave => Disconnects = {}

\* with leashReleaseOnLeave disabled, a batch told that the handler chosen
\* earlier left voice, and the user stayed connected
C19_Witness ==
    /\ ~leashReleaseOnLeave /\ IsBatch /\ last.err = "none"
    /\ handlerUserId # NoHandler
    /\ voice[Me] # Null /\ voice[handlerUserId] = Null
    /\ fx.toasts = <<"released">> /\ fx.calls = <<>>

\* C20: whenever the voice-state handler joins a channel c, the handler is
\* in c in the store at that moment, also when a later voice state of the
\* same batch moved the handler on.
C20_JoinsWhereHandlerIs ==
    IsBatch => \A i \in Joins : fx.calls[i].ch = voice[handlerUserId]

====
